---- MODULE Spec2Model ----
(***************************************************************************)
(* Model of src/main.py: the PDF to PNG batch converter CLI.               *)
(*                                                                         *)
(* Two entry points are modelled: the CLI entry point main() (parse_args,  *)
(* configure_logging, the directory checks, the glob and the per-document  *)
(* loop), and pdf_to_pngs() called directly by a library caller, as the    *)
(* unit tests do.  The external collaborators (convert_from_path and       *)
(* Image.save) are nondeterministic: a decode yields a page count or one   *)
(* of the three pdf2image errors, a save succeeds or raises OSError.       *)
(***************************************************************************)
EXTENDS Integers, Sequences, FiniteSets, TLC

\* ------------------------------------------------------------------ bounds
MaxPages == 2            \* most pages a decoded document has
MaxCalls == 2            \* most consecutive direct calls of pdf_to_pngs

Stems == {"report", "notes"}
Exts  == {".pdf", ".PDF"}
Entries == Stems \X Exts                 \* possible file names <<stem, suffix>>

\* ------------------------------------------------------- strings as sequences
DEBUG    == <<"D", "E", "B", "U", "G">>
INFO     == <<"I", "N", "F", "O">>
WARNING  == <<"W", "A", "R", "N", "I", "N", "G">>
ERROR    == <<"E", "R", "R", "O", "R">>
CRITICAL == <<"C", "R", "I", "T", "I", "C", "A", "L">>

\* values a user may pass to --log-level in the model
LogLevelInputs ==
    { INFO, <<"i", "n", "f", "o">>, CRITICAL, <<"T", "R", "A", "C", "E">> }

UpperChar(c) ==
    CASE c = "i" -> "I"
      [] c = "n" -> "N"
      [] c = "f" -> "F"
      [] c = "o" -> "O"
      [] OTHER   -> c

\* str.upper()
Upper(s) == [k \in 1..Len(s) |-> UpperChar(s[k])]

\* choices=[...] of --log-level
LOG_LEVEL_CHOICES == { DEBUG, INFO, WARNING, ERROR, CRITICAL }

ChoiceAcceptsAnyCase(v) == Upper(v) \in LOG_LEVEL_CHOICES
\* argparse compares the token with the choices by equality
ChoiceAccepts(v) == v \in LOG_LEVEL_CHOICES

\* getattr(logging, log_level.upper(), logging.INFO)
LevelNo(s) ==
    CASE Upper(s) = DEBUG    -> 10
      [] Upper(s) = INFO     -> 20
      [] Upper(s) = WARNING  -> 30
      [] Upper(s) = ERROR    -> 40
      [] Upper(s) = CRITICAL -> 50
      [] OTHER               -> 20

\* --------------------------------------------------------------- file names
Stem(p) == p[1]

PagePathZeroBased(stem, i) == <<stem, "_page_", i - 1, ".png">>
\* output_dir / f"{pdf_path.stem}_page_{i}.png"
PagePath(stem, i) == <<stem, "_page_", i, ".png">>

GlobMatchesAnyCase(e) == e[2] \in {".pdf", ".PDF"}
\* input_dir.glob("*.pdf")
GlobMatches(e) == e[2] = ".pdf"

PagePaths == { PagePath(s, i) : s \in Stems, i \in 1..MaxPages }

OldContent == [kind |-> "old", pdf |-> <<"", "">>, page |-> 0]
PartialContent == [kind |-> "partial", pdf |-> <<"", "">>, page |-> 0]
PngContent(p, i) == [kind |-> "png", pdf |-> p, page |-> i]

\* ------------------------------------------------------------------- state
VARIABLES
    pc,          \* position of the caller: main()'s statements, or "direct"
    level_arg,   \* the --log-level token
    level,       \* level of the root logger
    log,         \* records emitted to the log
    inDir,       \* input directory: "missing", "file" or "dir"
    inEntries,   \* names in the input directory
    outDir,      \* output directory: "missing", "blocked", "file", "dir_rw", "dir_ro"
    appLog,      \* output_dir/app.log: "absent", "writable", "readonly"
    disk,        \* page files in the output directory: path -> content
    docInfo,     \* what convert_from_path yields for a document
    pdf_files,   \* main(): the globbed list
    idx,         \* main(): position in pdf_files
    exit_code,   \* main(): exit_code
    ended,       \* how the caller ended: "running", "return", "SystemExit", "exception"
    conv,        \* activation of pdf_to_pngs
    calls,       \* number of direct calls made
    hist         \* observations: what the run did

vars == << pc, level_arg, level, log, inDir, inEntries, outDir, appLog, disk,
           docInfo, pdf_files, idx, exit_code, ended, conv, calls, hist >>

ConvIdle ==
    [ pc |-> "idle", pdf |-> <<"", "">>, overwrite |-> FALSE, images |-> 0,
      i |-> 0, output_paths |-> <<>>, exc |-> "none" ]

Activation(p, ow) ==
    [ pc |-> "decode", pdf |-> p, overwrite |-> ow, images |-> 0,
      i |-> 0, output_paths |-> <<>>, exc |-> "none" ]

CallHistNone ==
    [ pdf |-> <<"", "">>, overwrite |-> FALSE, pc |-> "idle",
      output_paths |-> <<>>, saves |-> <<>> ]

HistInit(d, o, a) ==
    [ disk0     |-> d,       \* page files before the run
      outDir0   |-> o,
      appLog0   |-> a,
      callDisk  |-> d,       \* page files when the current call started
      saves     |-> <<>>,    \* pages of the current call handed to img.save
      failedAt  |-> 0,       \* page of the current call whose img.save raised
      attempted |-> <<>>,    \* documents main() called pdf_to_pngs for
      failed    |-> {},      \* <<document, cause>> of each call that raised
      wrote     |-> {},      \* paths saved successfully
      skipped   |-> {},      \* paths skipped as existing
      rewrote   |-> {},      \* paths that existed when img.save was called
      prev      |-> CallHistNone ]

OutIsDir(o) == o \in {"dir_rw", "dir_ro"}

\* the caller is the CLI entry point (pc = "start") or a library caller of
\* pdf_to_pngs (pc = "direct"), for whom the CLI's inputs play no part
Init ==
    /\ pc \in {"start", "direct"}
    /\ level_arg \in LogLevelInputs
    /\ level = 30
    /\ log = <<>>
    /\ inDir \in {"missing", "file", "dir"}
    /\ inEntries \in SUBSET Entries
    /\ (inDir # "dir" => inEntries = {})
    /\ outDir \in {"missing", "blocked", "file", "dir_rw", "dir_ro"}
    /\ appLog \in {"absent", "writable", "readonly"}
    /\ (~OutIsDir(outDir) => appLog = "absent")
    /\ (pc = "direct" =>
          /\ level_arg = INFO
          /\ inDir = "dir"
          /\ inEntries = {}
          /\ appLog = "absent")
    /\ \E existing \in SUBSET PagePaths :
          /\ (~OutIsDir(outDir) => existing = {})
          /\ disk = [f \in existing |-> OldContent]
    /\ docInfo = [e \in Entries |-> [kind |-> "unknown", pages |-> 0]]
    /\ pdf_files = <<>>
    /\ idx = 0
    /\ exit_code = 0
    /\ ended = "running"
    /\ conv = ConvIdle
    /\ calls = 0
    /\ hist = HistInit(disk, outDir, appLog)

\* logger.<sev>(...): the record is kept when sev reaches the logger's level
Emit(l, sev, msg) == IF sev >= level THEN Append(l, [sev |-> sev, msg |-> msg]) ELSE l

\* ------------------------------------------------------- the file system
\* Path.mkdir(parents=True, exist_ok=True)
Mkdir(o) ==
    [ ok  |-> o \in {"missing", "dir_rw", "dir_ro"},
      dir |-> IF o = "missing" THEN "dir_rw" ELSE o ]

\* logging.FileHandler(log_file, mode="a"): opens the file at construction
OpenAppend(o, a) ==
    [ ok   |-> a = "writable" \/ (a = "absent" /\ o = "dir_rw"),
      file |-> IF a = "absent" /\ o = "dir_rw" THEN "writable" ELSE a ]

\* os.access(str(output_dir), os.W_OK)
AccessW(o) == o = "dir_rw"

\* whether img.save(path) can succeed at all
CanSave(path) == outDir = "dir_rw" \/ (outDir = "dir_ro" /\ path \in DOMAIN disk)

\* what a failed img.save may leave behind: nothing changed, or a truncated file
DisksAfterFailedSave(path) ==
    IF OutIsDir(outDir) /\ CanSave(path)
    THEN { disk, (path :> PartialContent) @@ disk }
    ELSE { disk }

\* ------------------------------------------------------------ pdf_to_pngs
DecodeErrors == { "PDFInfoNotInstalledError", "PDFPageCountError", "PDFSyntaxError" }

DecodeOutcomes ==
    { [kind |-> "ok", pages |-> n] : n \in 0..MaxPages }
        \cup { [kind |-> k, pages |-> 0] : k \in DecodeErrors }

\* except (PDFInfoNotInstalledError, PDFPageCountError, PDFSyntaxError)
CaughtDecodeErrors == { "PDFInfoNotInstalledError", "PDFPageCountError", "PDFSyntaxError" }

ShouldSkipNever(exists, overwrite) == FALSE
ShouldSkipInverted(exists, overwrite) == exists /\ overwrite
\* if output_path.exists() and not overwrite
ShouldSkip(exists, overwrite) == exists /\ ~overwrite

Raise(c, e) == [c EXCEPT !.pc = "raised", !.exc = e]

AfterSaveErrorContinue(c) == [c EXCEPT !.i = c.i + 1]
\* except OSError: raise PdfConversionError(...)
AfterSaveError(c) == Raise(c, "PdfConversionError")

\* images = convert_from_path(str(pdf_path)), and its except clause
PdfDecode ==
    /\ conv.pc = "decode"
    /\ \E r \in DecodeOutcomes :
         /\ docInfo[conv.pdf].kind # "unknown" => r = docInfo[conv.pdf]
         /\ docInfo' = [docInfo EXCEPT ![conv.pdf] = r]
         /\ IF r.kind = "ok"
            THEN /\ conv' = [conv EXCEPT !.pc = "pages", !.images = r.pages, !.i = 1]
                 /\ UNCHANGED << log, hist >>
            ELSE /\ hist' = [hist EXCEPT !.failed = @ \cup { <<conv.pdf, "decode">> }]
                 /\ IF r.kind \in CaughtDecodeErrors
                    THEN /\ log' = Emit(log, 40, "Failed to convert")
                         /\ conv' = Raise(conv, "PdfConversionError")
                    ELSE /\ log' = log
                         /\ conv' = Raise(conv, r.kind)
    /\ UNCHANGED << pc, level_arg, level, inDir, inEntries, outDir, appLog, disk,
                    pdf_files, idx, exit_code, ended, calls >>

\* one iteration of: for i, img in enumerate(images, start=1)
PdfPage ==
    /\ conv.pc = "pages"
    /\ conv.i <= conv.images
    /\ LET path == PagePath(Stem(conv.pdf), conv.i) IN
       IF ShouldSkip(path \in DOMAIN disk, conv.overwrite)
       THEN /\ log' = Emit(log, 20, "Skipping existing file")
            /\ conv' = [conv EXCEPT !.i = conv.i + 1]
            /\ hist' = [hist EXCEPT !.skipped = @ \cup {path}]
            /\ disk' = disk
       ELSE \E saved \in { b \in BOOLEAN : b => CanSave(path) } :
              LET h == [hist EXCEPT
                           !.saves = Append(@, conv.i),
                           !.rewrote = IF path \in DOMAIN disk THEN @ \cup {path} ELSE @]
              IN
              IF saved
              THEN /\ disk' = (path :> PngContent(conv.pdf, conv.i)) @@ disk
                   /\ conv' = [conv EXCEPT !.output_paths = Append(@, path),
                                           !.i = conv.i + 1]
                   /\ log' = Emit(log, 20, "Saved")
                   /\ hist' = [h EXCEPT !.wrote = @ \cup {path}]
              ELSE /\ disk' \in DisksAfterFailedSave(path)
                   /\ log' = Emit(log, 40, "Failed to save")
                   /\ conv' = AfterSaveError(conv)
                   /\ hist' = [h EXCEPT !.failed = @ \cup { <<conv.pdf, "save">> },
                                        !.failedAt = conv.i]
    /\ UNCHANGED << pc, level_arg, level, inDir, inEntries, outDir, appLog, docInfo,
                    pdf_files, idx, exit_code, ended, calls >>

\* return output_paths
PdfReturn ==
    /\ conv.pc = "pages"
    /\ conv.i > conv.images
    /\ conv' = [conv EXCEPT !.pc = "returned"]
    /\ UNCHANGED << pc, level_arg, level, log, inDir, inEntries, outDir, appLog, disk,
                    docInfo, pdf_files, idx, exit_code, ended, calls, hist >>

\* bookkeeping at the start of a call of pdf_to_pngs
CallHist(h, c, d) ==
    [h EXCEPT !.prev = [ pdf |-> c.pdf, overwrite |-> c.overwrite, pc |-> c.pc,
                         output_paths |-> c.output_paths, saves |-> h.saves ],
              !.callDisk = d,
              !.saves = <<>>,
              !.failedAt = 0]

\* the documents a library caller passes
DirectPdfs == { e \in Entries : e[2] = ".pdf" }

\* a library caller: pdf_to_pngs(pdf_path, output_dir, overwrite)
DirectCall ==
    /\ pc = "direct"
    /\ conv.pc \in {"idle", "returned", "raised"}
    /\ calls < MaxCalls
    /\ \E p \in DirectPdfs, ow \in BOOLEAN :
         /\ conv' = Activation(p, ow)
         /\ hist' = CallHist(hist, conv, disk)
    /\ pc' = "direct"
    /\ calls' = calls + 1
    /\ UNCHANGED << level_arg, level, log, inDir, inEntries, outDir, appLog, disk,
                    docInfo, pdf_files, idx, exit_code, ended >>

\* ------------------------------------------------------------------- main
\* parsed = parse_args(args)
ParseArgs ==
    /\ pc = "start"
    /\ IF ChoiceAccepts(level_arg)
       THEN /\ pc' = "configure_logging"
            /\ UNCHANGED << ended, exit_code >>
       ELSE /\ pc' = "done"
            /\ ended' = "SystemExit"
            /\ exit_code' = 2
    /\ UNCHANGED << level_arg, level, log, inDir, inEntries, outDir, appLog, disk,
                    docInfo, pdf_files, idx, conv, calls, hist >>

\* configure_logging(parsed.output_dir, parsed.log_level, parsed.log_to_console)
ConfigureLogging ==
    /\ pc = "configure_logging"
    /\ LET m == Mkdir(outDir)
           f == OpenAppend(m.dir, appLog)
       IN
       /\ outDir' = m.dir
       /\ appLog' = IF m.ok THEN f.file ELSE appLog
       /\ IF m.ok /\ f.ok
          THEN /\ level' = LevelNo(level_arg)
               /\ pc' = "check_input"
               /\ ended' = ended
          ELSE /\ level' = level
               /\ pc' = "done"
               /\ ended' = "exception"
    /\ UNCHANGED << level_arg, log, inDir, inEntries, disk, docInfo, pdf_files, idx,
                    exit_code, conv, calls, hist >>

Return(code) ==
    /\ pc' = "done"
    /\ ended' = "return"
    /\ exit_code' = code

\* if not input_dir.is_dir(): ... return 1
CheckInputDir ==
    /\ pc = "check_input"
    /\ IF inDir # "dir"
       THEN /\ log' = Emit(log, 40, "Input directory does not exist")
            /\ Return(1)
       ELSE /\ pc' = "mkdir_output"
            /\ UNCHANGED << log, ended, exit_code >>
    /\ UNCHANGED << level_arg, level, inDir, inEntries, outDir, appLog, disk, docInfo,
                    pdf_files, idx, conv, calls, hist >>

\* try: output_dir.mkdir(parents=True, exist_ok=True) except Exception: ... return 1
MakeOutputDir ==
    /\ pc = "mkdir_output"
    /\ LET m == Mkdir(outDir) IN
       /\ outDir' = m.dir
       /\ IF m.ok
          THEN /\ pc' = "check_writable"
               /\ UNCHANGED << log, ended, exit_code >>
          ELSE /\ log' = Emit(log, 40, "Cannot create output directory")
               /\ Return(1)
    /\ UNCHANGED << level_arg, level, inDir, inEntries, appLog, disk, docInfo,
                    pdf_files, idx, conv, calls, hist >>

\* if not os.access(str(output_dir), os.W_OK): ... return 1
CheckWritable ==
    /\ pc = "check_writable"
    /\ IF ~AccessW(outDir)
       THEN /\ log' = Emit(log, 40, "Output directory is not writable")
            /\ Return(1)
       ELSE /\ pc' = "glob"
            /\ UNCHANGED << log, ended, exit_code >>
    /\ UNCHANGED << level_arg, level, inDir, inEntries, outDir, appLog, disk, docInfo,
                    pdf_files, idx, conv, calls, hist >>

\* the orders in which glob may list a set of names
Listings(S) ==
    { s \in [1..Cardinality(S) -> S] : \A a, b \in 1..Cardinality(S) : s[a] = s[b] => a = b }

\* pdf_files = list(input_dir.glob("*.pdf")); if not pdf_files: ... return 0
Glob ==
    /\ pc = "glob"
    /\ \E found \in Listings({ e \in inEntries : GlobMatches(e) }) :
         /\ pdf_files' = found
         /\ IF found = <<>>
            THEN /\ log' = Emit(log, 30, "No PDF files found")
                 /\ Return(0)
                 /\ idx' = idx
            ELSE /\ pc' = "loop"
                 /\ idx' = 1
                 /\ UNCHANGED << log, ended, exit_code >>
    /\ UNCHANGED << level_arg, level, inDir, inEntries, outDir, appLog, disk, docInfo,
                    conv, calls, hist >>

\* pdf_to_pngs(pdf_file, output_dir): overwrite keeps its default
MainOverwrite == FALSE

\* for pdf_file in pdf_files: pdf_to_pngs(pdf_file, output_dir); after it: return exit_code
MainLoop ==
    /\ pc = "loop"
    /\ IF idx <= Len(pdf_files)
       THEN /\ conv' = Activation(pdf_files[idx], MainOverwrite)
            /\ hist' = [CallHist(hist, conv, disk) EXCEPT
                           !.attempted = Append(@, pdf_files[idx])]
            /\ pc' = "call"
            /\ UNCHANGED << ended, exit_code >>
       ELSE /\ Return(exit_code)
            /\ UNCHANGED << conv, hist >>
    /\ UNCHANGED << level_arg, level, log, inDir, inEntries, outDir, appLog, disk,
                    docInfo, pdf_files, idx, calls >>

MainHandlesNothing(e) == FALSE
\* except PdfConversionError as e
MainHandles(e) == e = "PdfConversionError"

ExitCodeKept(code) == code
\* exit_code = 1
ExitCodeAfterFailure(code) == 1

\* the try statement around the call: it returned, or the except clause runs
MainAfterCall ==
    /\ pc = "call"
    /\ conv.pc \in {"returned", "raised"}
    /\ IF conv.pc = "returned"
       THEN /\ pc' = "loop"
            /\ idx' = idx + 1
            /\ UNCHANGED << log, exit_code, ended >>
       ELSE IF MainHandles(conv.exc)
            THEN /\ log' = Emit(log, 40, "PDF conversion failed")
                 /\ exit_code' = ExitCodeAfterFailure(exit_code)
                 /\ pc' = "loop"
                 /\ idx' = idx + 1
                 /\ ended' = ended
            ELSE /\ pc' = "done"
                 /\ ended' = "exception"
                 /\ UNCHANGED << log, exit_code, idx >>
    /\ conv' = [conv EXCEPT !.pc = "idle"]
    /\ UNCHANGED << level_arg, level, inDir, inEntries, outDir, appLog, disk, docInfo,
                    pdf_files, calls, hist >>

Next ==
    \/ ParseArgs
    \/ ConfigureLogging
    \/ CheckInputDir
    \/ MakeOutputDir
    \/ CheckWritable
    \/ Glob
    \/ MainLoop
    \/ MainAfterCall
    \/ DirectCall
    \/ PdfDecode
    \/ PdfPage
    \/ PdfReturn

Spec == Init /\ [][Next]_vars

\* ================================================================== claims
Range(q) == { q[k] : k \in 1..Len(q) }

LevelNames ==
    { <<"D", "E", "B", "U", "G">>, <<"I", "N", "F", "O">>,
      <<"W", "A", "R", "N", "I", "N", "G">>, <<"E", "R", "R", "O", "R">>,
      <<"C", "R", "I", "T", "I", "C", "A", "L">> }

\* the name the documentation gives page i of a document: {stem}_page_{i}.png
Named(p, i) == <<p[1], "_page_", i, ".png">>

NamedPages(p, n) == [i \in 1..n |-> Named(p, i)]

DecodeFailed(p) == docInfo[p].kind \notin {"ok", "unknown"}

\* C1: in main, a document whose decode fails never aborts the batch: when the
\* run over a non-empty list of discovered documents has ended, it ended by
\* returning, pdf_to_pngs was called for every discovered document in turn, no
\* page file of a document whose decode failed was written or changed, and
\* every page of every other document (whose saves did not fail) was handled:
\* saved by this run, or skipped because its file already existed.
C1_DecodeFailureIsolated ==
    (pc = "done" /\ pdf_files # <<>>) =>
        /\ ended = "return"
        /\ hist.attempted = pdf_files
        /\ \A p \in Range(pdf_files) :
             /\ docInfo[p].kind # "unknown"
             /\ DecodeFailed(p) =>
                  /\ \A f \in hist.wrote : f[1] # p[1]
                  /\ \A i \in 1..MaxPages + 1 :
                       /\ Named(p, i) \in DOMAIN disk <=> Named(p, i) \in DOMAIN hist.disk0
                       /\ Named(p, i) \in DOMAIN disk => disk[Named(p, i)] = hist.disk0[Named(p, i)]
             /\ (~DecodeFailed(p) /\ <<p, "save">> \notin hist.failed) =>
                  \A i \in 1..docInfo[p].pages :
                       /\ Named(p, i) \in DOMAIN disk
                       /\ \/ /\ Named(p, i) \in hist.wrote
                             /\ disk[Named(p, i)] = [kind |-> "png", pdf |-> p, page |-> i]
                          \/ /\ Named(p, i) \in hist.skipped
                             /\ Named(p, i) \in DOMAIN hist.disk0

\* a run of two documents: the first fails to decode, the second has all
\* its pages written
C1_Witness ==
    /\ pc = "done"
    /\ Len(pdf_files) = 2
    /\ DecodeFailed(pdf_files[1])
    /\ docInfo[pdf_files[2]].kind = "ok"
    /\ docInfo[pdf_files[2]].pages = MaxPages
    /\ \A i \in 1..MaxPages : Named(pdf_files[2], i) \in hist.wrote

\* C2: when at least one document was discovered, main returns 1 exactly when
\* some document's conversion failed (decode or save) and 0 otherwise; pages
\* skipped as existing do not count.
C2_ExitCode ==
    (pc = "done" /\ pdf_files # <<>>) =>
        /\ ended = "return"
        /\ exit_code = IF hist.failed = {} THEN 0 ELSE 1

\* a run that skipped a page, saved another and ended with exit code 0
C2_Witness ==
    /\ pc = "done"
    /\ pdf_files # <<>>
    /\ hist.skipped # {}
    /\ hist.wrote # {}
    /\ exit_code = 0

\* C3: a call of pdf_to_pngs that starts with no page file in the output
\* directory and returns for a document of N pages has written exactly the N
\* files {stem}_page_1.png .. {stem}_page_N.png, one save per page in page
\* order, and returns exactly those N paths in ascending page order.
C3_ExactPages ==
    (conv.pc = "returned" /\ DOMAIN hist.callDisk = {}) =>
        /\ conv.images = docInfo[conv.pdf].pages
        /\ conv.output_paths = NamedPages(conv.pdf, conv.images)
        /\ DOMAIN disk = Range(NamedPages(conv.pdf, conv.images))
        /\ \A i \in 1..conv.images :
             disk[Named(conv.pdf, i)] = [kind |-> "png", pdf |-> conv.pdf, page |-> i]
        /\ hist.saves = [i \in 1..conv.images |-> i]

C3_Witness ==
    /\ conv.pc = "returned"
    /\ DOMAIN hist.callDisk = {}
    /\ conv.images = MaxPages
    /\ Len(conv.output_paths) = MaxPages

\* C4: in a call of pdf_to_pngs with overwrite=false, every page file that
\* existed when the call started is left as it was; when the call returns, its
\* result is exactly the pages whose file did not exist before, in page order;
\* a call that raises after a successful decode raises at a save of a file that
\* did not exist, never at a skip.  main always calls with overwrite=false, so
\* a CLI run never hands an existing page file to img.save.
C4_SkipExisting ==
    /\ (conv.pc \in {"pages", "returned", "raised"} /\ ~conv.overwrite) =>
          \A f \in DOMAIN hist.callDisk :
              f \in DOMAIN disk /\ disk[f] = hist.callDisk[f]
    /\ (conv.pc = "returned" /\ ~conv.overwrite) =>
          LET IsNew(f) == f \notin DOMAIN hist.callDisk IN
          conv.output_paths = SelectSeq(NamedPages(conv.pdf, conv.images), IsNew)
    /\ (conv.pc = "raised" /\ ~conv.overwrite /\ ~DecodeFailed(conv.pdf)) =>
          /\ hist.saves # <<>>
          /\ Named(conv.pdf, hist.saves[Len(hist.saves)]) \notin DOMAIN hist.callDisk
    /\ (pc # "direct" /\ conv.pc # "idle") => ~conv.overwrite
    /\ pc # "direct" => hist.rewrote = {}

\* page 1 existed and was skipped, page 2 was written and is the whole result
C4_Witness ==
    /\ conv.pc = "returned"
    /\ ~conv.overwrite
    /\ conv.images = 2
    /\ Named(conv.pdf, 1) \in DOMAIN hist.callDisk
    /\ Named(conv.pdf, 1) \in hist.skipped
    /\ conv.output_paths = << Named(conv.pdf, 2) >>

\* a call that directly follows a call on the same document that returned,
\* both with overwrite=false
SecondRun ==
    /\ conv.pc # "idle"
    /\ hist.prev.pc = "returned"
    /\ hist.prev.pdf = conv.pdf
    /\ ~hist.prev.overwrite
    /\ ~conv.overwrite

\* C5: the second of two consecutive calls of pdf_to_pngs on the same document
\* and output directory with overwrite=false calls img.save for no page,
\* leaves the directory as it was, does not raise and returns an empty list.
C5_Idempotent ==
    SecondRun =>
        /\ hist.saves = <<>>
        /\ disk = hist.callDisk
        /\ conv.pc # "raised"
        /\ conv.output_paths = <<>>

\* the first run wrote pages, the second returned
C5_Witness ==
    /\ SecondRun
    /\ conv.pc = "returned"
    /\ conv.images = MaxPages
    /\ Len(hist.prev.output_paths) = MaxPages

\* the arguments parse, so the run gets past parse_args
ValidArgs == level_arg \in LevelNames

\* C6: if the input directory does not exist or is not a directory, main
\* returns 1 without writing a page file and without calling pdf_to_pngs.
C6_MissingInputReturnsOne ==
    (pc = "done" /\ ValidArgs /\ inDir # "dir") =>
        /\ ended = "return"
        /\ exit_code = 1
        /\ hist.attempted = <<>>
        /\ hist.saves = <<>>
        /\ disk = hist.disk0

\* C7: if the output directory is missing and cannot be created, main ends by
\* returning 1 with an error logged, having discovered and converted nothing.
C7_UncreatableOutputReturnsOne ==
    (pc = "done" /\ ValidArgs /\ hist.outDir0 \in {"blocked", "file"}) =>
        /\ ended = "return"
        /\ exit_code = 1
        /\ (level <= 40 => \E k \in 1..Len(log) : log[k].sev = 40)
        /\ pdf_files = <<>>
        /\ hist.attempted = <<>>

NoPdfEntries == \A e \in inEntries : e[2] # ".pdf"

\* C8 as stated: whenever main returns for an input directory holding no entry
\* that matches *.pdf, it returns 0, has written no page and the output
\* directory exists.
C8_NoDocumentsReturnsZero_Original ==
    (pc = "done" /\ ended = "return" /\ inDir = "dir" /\ NoPdfEntries) =>
        /\ exit_code = 0
        /\ hist.wrote = {}
        /\ OutIsDir(outDir)

\* the output directory exists or can be created, is writable, and app.log
\* can be opened for appending
OutputUsable ==
    /\ hist.outDir0 \in {"missing", "dir_rw"}
    /\ hist.appLog0 # "readonly"

\* C8 amended: for an input directory holding no entry that matches *.pdf, when
\* the arguments parse and the output directory is usable, main returns 0, has
\* called img.save for no page, and the output directory exists.
C8_NoDocumentsReturnsZero ==
    (pc = "done" /\ ValidArgs /\ inDir = "dir" /\ NoPdfEntries /\ OutputUsable) =>
        /\ ended = "return"
        /\ exit_code = 0
        /\ hist.wrote = {}
        /\ hist.saves = <<>>
        /\ hist.attempted = <<>>
        /\ disk = hist.disk0
        /\ outDir = "dir_rw"

\* the directory holds only a .PDF entry and the output directory was created
C8_Witness ==
    /\ pc = "done"
    /\ ended = "return"
    /\ exit_code = 0
    /\ inEntries # {}
    /\ NoPdfEntries
    /\ hist.outDir0 = "missing"
    /\ outDir = "dir_rw"

Parsed == pc \notin {"start", "direct"}

\* C9 as stated: parse_args accepts the --log-level value exactly when it
\* equals one of the five names ignoring letter case.
C9_LogLevelAnyCase_Original ==
    Parsed => ((ended # "SystemExit") <=> (Upper(level_arg) \in LevelNames))

\* C9 amended: parse_args accepts the --log-level value exactly when it equals
\* one of the five upper-case names, letter case included; every other value
\* ends the run with a nonzero exit status before any logging setup or
\* directory work: the logger, the log, the output directory and its files
\* are as they were.
C9_LogLevelExact ==
    Parsed =>
        /\ (ended # "SystemExit") <=> (level_arg \in LevelNames)
        /\ ended = "SystemExit" =>
             /\ pc = "done"
             /\ exit_code # 0
             /\ level = 30
             /\ log = <<>>
             /\ outDir = hist.outDir0
             /\ appLog = hist.appLog0
             /\ disk = hist.disk0
             /\ hist.attempted = <<>>

\* the lower-case spelling of a valid name is refused
C9_Witness ==
    /\ ended = "SystemExit"
    /\ level_arg = <<"i", "n", "f", "o">>
    /\ hist.outDir0 = "missing"
    /\ outDir = "missing"

\* C10: if img.save raises for page k, pdf_to_pngs raises PdfConversionError at
\* once: k is the last page handed to img.save, no path list is returned, and
\* the files written for the pages before k in this call are still on disk.
C10_SaveFailureStops ==
    hist.failedAt # 0 =>
        /\ conv.pc \in {"raised", "idle"}
        /\ conv.exc = "PdfConversionError"
        /\ conv.i = hist.failedAt
        /\ hist.saves[Len(hist.saves)] = hist.failedAt
        /\ \A k \in 1..Len(hist.saves) - 1 : hist.saves[k] < hist.saves[k + 1]
        /\ \A f \in Range(conv.output_paths) :
             /\ f \in DOMAIN disk
             /\ disk[f].kind = "png"
             /\ disk[f].pdf = conv.pdf
             /\ Named(conv.pdf, disk[f].page) = f
             /\ disk[f].page < hist.failedAt

\* page 1 was written, the save of page 2 failed
C10_Witness ==
    /\ hist.failedAt = 2
    /\ conv.pc = "raised"
    /\ conv.output_paths = << Named(conv.pdf, 1) >>
    /\ disk[Named(conv.pdf, 1)].kind = "png"
====
